---- MODULE Spec2Model ----
(***************************************************************************)
(* PIDController of src/pid/controllers.py as a state machine.             *)
(*                                                                         *)
(* Numbers.  Measurements, setpoints and clock readings are integers; the  *)
(* gains and the returned control value are exact rationals <<n, d>> with  *)
(* d > 0 in lowest terms (Python's `/` is true division, so -0.75 * -1.0   *)
(* is 3/4, not 0).  Floating-point rounding is not modelled.  Operands are *)
(* Python's built-in numbers: a division by zero raises ZeroDivisionError. *)
(***************************************************************************)
EXTENDS Integers, Sequences, FiniteSets, TLC

\* ---------------------------------------------------------------- bounds
MaxOps == 3
MaxClock == 2
MaxMeas == 2
MaxThreadCalls == 2

Measurements == 1..MaxMeas
Setpoints == {0, 1}

\* ------------------------------------------------------------- rationals
Abs(x) == IF x < 0 THEN -x ELSE x

RECURSIVE GCD(_, _)
GCD(a, b) == IF b = 0 THEN a ELSE GCD(b, a % b)

Norm(n, dn) ==
    LET g == GCD(Abs(n), Abs(dn))
        sg == IF dn < 0 THEN -1 ELSE 1
    IN  <<(sg * n) \div g, (sg * dn) \div g>>

R(n) == <<n, 1>>
RAdd(a, b) == Norm(a[1] * b[2] + b[1] * a[2], a[2] * b[2])
RMul(a, b) == Norm(a[1] * b[1], a[2] * b[2])

\* ------------------------------------------------------- constructor args
\* PIDController() as in car.py and cartpole.py, PIDController(p=50, d=-0.75)
\* as in pendulum.py, and three more gain triples with i # 0 or d > 0.
GainTriples ==
    { <<R(0), R(0), R(0)>>,
      <<R(50), R(0), <<-3, 4>>>>,
      <<R(1), R(0), R(0)>>,
      <<R(1), R(1), R(1)>>,
      <<R(0), R(2), R(0)>> }

\* the controllers the threads share
ThreadGainTriples == { <<R(50), R(0), <<-3, 4>>>>, <<R(1), R(1), R(1)>> }

\* -------------------------------------------------------- optional value
None == <<>>
Some(x) == <<x>>

Threads == {1, 2}

VARIABLES
    p, i, d,            \* self.p, self.i, self.d
    accum,              \* self.accum
    last_measurement,   \* self.last_measurement: None or Some(m)
    last_time_sec,      \* self.last_time_sec
    clock,              \* what time() returns now
    nops,               \* number of compute/reset calls started so far
    ncompute,           \* number of compute calls started so far
    calls,              \* the <<measurement, setpoint>> of the compute calls
                        \* started since the last reset, oldest first
    op,                 \* the latest call: "none", "compute" or "reset"
    last,               \* the latest compute call of the sequential caller
    prev,               \* the compute call before that one
    pc, loc,            \* per thread: position in compute, and its locals
    overlapped          \* some call began while another was in progress

vars == <<p, i, d, accum, last_measurement, last_time_sec, clock, nops,
          ncompute, calls, op, last, prev, pc, loc, overlapped>>

gains == <<p, i, d>>
fields == <<accum, last_measurement, last_time_sec>>
threadVars == <<pc, loc, overlapped>>

\* ------------------------------------------------------ pieces of compute
\* the error with its sign turned: measurement - setpoint
ErrSwapped(measurement, setpoint) == measurement - setpoint

\* line 20
Err(measurement, setpoint) == setpoint - measurement

\* `=` for `+=`: the accumulator keeps the latest error alone
AccumAssign(acc, error) == error

\* line 21
AccumAdd(acc, error) == acc + error

\* line 26: Python's true division of built-in numbers; a zero divisor raises
\* ZeroDivisionError, whatever the dividend (0/0 included)
ZeroDivisionError == <<0, 0>>

\* a guard that skips the division when the divisor is zero
TrueDivGuarded(num, den) == IF den = 0 THEN R(0) ELSE Norm(num, den)

TrueDiv(num, den) == IF den = 0 THEN ZeroDivisionError ELSE Norm(num, den)

\* no first-call case: an absent last_measurement counts as 0
DiffNoneAsZero(lm, measurement, now, lts) ==
    TrueDiv(measurement - (IF lm = None THEN 0 ELSE lm[1]), now - lts)

\* lines 23-26: diff, or the exception the division raised
Diff(lm, measurement, now, lts) ==
    IF lm = None
    THEN R(0)
    ELSE TrueDiv(measurement - lm[1], now - lts)

\* the integral term without its gain
OutputUngainedIntegral(gp, gi, gd, error, acc, diff) ==
    RAdd(RAdd(RMul(gp, R(error)), R(acc)), RMul(gd, diff))

\* line 30
Output(gp, gi, gd, error, acc, diff) ==
    RAdd(RAdd(RMul(gp, R(error)), RMul(gi, R(acc))), RMul(gd, diff))

\* ------------------------------------------------------------ call records
\* What a caller observes of one compute call: its arguments, the fields when
\* it began (accum0, lm0, lts0), whether line 26 was run (divided), the clock
\* when line 23 was reached (t26: the reading of line 26 when divided), the
\* last clock reading the call made (tlast) and how it ended (kind, val).
NoCall ==
    [some |-> FALSE, m |-> 0, s |-> 0, accum0 |-> 0, lm0 |-> None, lts0 |-> 0,
     divided |-> FALSE, t26 |-> 0, tlast |-> 0, kind |-> "none", val |-> R(0)]

NoLocals ==
    [m |-> 0, error |-> 0, racc |-> 0, rlm |-> None, diff |-> R(0),
     kind |-> "none", val |-> R(0)]

\* ------------------------------------------------------------------ __init__
\* last_measurement starting at 0 instead of None
InitLastMeasurementZero == Some(0)

InitLastMeasurement == None

Init ==
    /\ \E g \in GainTriples : p = g[1] /\ i = g[2] /\ d = g[3]
    /\ accum = 0
    /\ last_measurement = InitLastMeasurement
    /\ clock \in 0..1
    /\ last_time_sec = clock
    /\ nops = 0
    /\ ncompute = 0
    /\ calls = <<>>
    /\ op = "none"
    /\ last = NoCall
    /\ prev = NoCall
    /\ pc = [t \in Threads |-> "idle"]
    /\ loc = [t \in Threads |-> NoLocals]
    /\ overlapped = FALSE

\* The wall clock moves on between and during calls.
Tick ==
    /\ clock < MaxClock
    /\ clock' = clock + 1
    /\ UNCHANGED <<gains, fields, nops, ncompute, calls, op, last, prev,
                   threadVars>>

\* ------------------------------------------------------------------- reset
\* a reset that also forgets the last measurement
ResetAll ==
    /\ nops < MaxOps
    /\ accum' = 0
    /\ last_measurement' = None
    /\ nops' = nops + 1
    /\ calls' = <<>>
    /\ op' = "reset"
    /\ UNCHANGED <<gains, last_time_sec, clock, ncompute, last, prev,
                   threadVars>>

Reset ==
    /\ nops < MaxOps
    /\ accum' = 0
    /\ nops' = nops + 1
    /\ calls' = <<>>
    /\ op' = "reset"
    /\ UNCHANGED <<gains, last_measurement, last_time_sec, clock, ncompute,
                   last, prev, threadVars>>

\* ----------------------------------------------------------------- compute
\* One whole call by a single caller.  adv is how far the clock moves between
\* the time() of line 26 and the time() of line 27.
Compute(measurement, setpoint, adv) ==
    /\ nops < MaxOps
    /\ clock + adv <= MaxClock
    /\ LET error == Err(measurement, setpoint)
           acc1 == AccumAdd(accum, error)
           t26 == clock
           t27 == clock + adv
           diff == Diff(last_measurement, measurement, t26, last_time_sec)
           me == [NoCall EXCEPT !.some = TRUE, !.m = measurement,
                                !.s = setpoint, !.accum0 = accum,
                                !.lm0 = last_measurement,
                                !.lts0 = last_time_sec,
                                !.divided = (last_measurement # None),
                                !.t26 = t26]
       IN  /\ accum' = acc1
           /\ IF diff = ZeroDivisionError
              THEN \* line 26 raises: lines 27-30 are not run
                   /\ adv = 0
                   /\ UNCHANGED <<last_measurement, last_time_sec, clock>>
                   /\ last' = [me EXCEPT !.tlast = t26,
                                         !.kind = "ZeroDivisionError"]
              ELSE \* the first call reads the clock once, at line 27
                   /\ last_measurement # None \/ adv = 0
                   /\ clock' = t27
                   /\ last_time_sec' = t27
                   /\ last_measurement' = Some(measurement)
                   /\ last' = [me EXCEPT
                         !.tlast = t27, !.kind = "value",
                         !.val = Output(p, i, d, error, acc1, diff)]
    /\ nops' = nops + 1
    /\ ncompute' = ncompute + 1
    /\ calls' = Append(calls, <<measurement, setpoint>>)
    /\ op' = "compute"
    /\ prev' = last
    /\ UNCHANGED <<gains, threadVars>>

Next ==
    \/ Tick
    \/ Reset
    \/ \E measurement \in Measurements, setpoint \in Setpoints, adv \in 0..1 :
          Compute(measurement, setpoint, adv)

Spec == Init /\ [][Next]_vars

\* ------------------------------------------- two threads, one controller
\* The same methods called by the threads of Threads with no lock: every load
\* and store of a field of self is a step of its own, and the steps of the
\* threads interleave freely.  pc[t] names the line thread t is about to run.
InitThreads ==
    /\ Init
    /\ <<p, i, d>> \in ThreadGainTriples
    /\ clock = 0

Busy(t) == pc[t] # "idle"

OthersBusy(t) == \E u \in Threads \ {t} : Busy(u)

Goto(t, label) == pc' = [pc EXCEPT ![t] = label]

\* entry of compute and line 20
CallCompute(t, measurement, setpoint) ==
    /\ ~Busy(t)
    /\ nops < MaxThreadCalls
    /\ loc' = [loc EXCEPT ![t] =
                 [NoLocals EXCEPT !.m = measurement,
                                  !.error = Err(measurement, setpoint)]]
    /\ Goto(t, "L21_load")
    /\ nops' = nops + 1
    /\ ncompute' = ncompute + 1
    /\ calls' = Append(calls, <<measurement, setpoint>>)
    /\ overlapped' = (overlapped \/ OthersBusy(t))
    /\ UNCHANGED <<gains, fields, clock, op, last, prev>>

\* line 21, the load of self.accum
LoadAccum(t) ==
    /\ pc[t] = "L21_load"
    /\ loc' = [loc EXCEPT ![t].racc = accum]
    /\ Goto(t, "L21_store")
    /\ UNCHANGED <<gains, fields, clock, nops, ncompute, calls, op, last, prev,
                   overlapped>>

\* line 21, the store to self.accum
StoreAccum(t) ==
    /\ pc[t] = "L21_store"
    /\ accum' = AccumAdd(loc[t].racc, loc[t].error)
    /\ Goto(t, "L23")
    /\ UNCHANGED <<gains, last_measurement, last_time_sec, clock, nops,
                   ncompute, calls, op, last, prev, loc, overlapped>>

\* lines 23-24
TestFirst(t) ==
    /\ pc[t] = "L23"
    /\ IF last_measurement = None
       THEN /\ loc' = [loc EXCEPT ![t].diff = R(0)]
            /\ Goto(t, "L27")
       ELSE /\ loc' = loc
            /\ Goto(t, "L26_lm")
    /\ UNCHANGED <<gains, fields, clock, nops, ncompute, calls, op, last, prev,
                   overlapped>>

\* line 26, the load of self.last_measurement
LoadMeasurement(t) ==
    /\ pc[t] = "L26_lm"
    /\ loc' = [loc EXCEPT ![t].rlm = last_measurement]
    /\ Goto(t, "L26_div")
    /\ UNCHANGED <<gains, fields, clock, nops, ncompute, calls, op, last, prev,
                   overlapped>>

\* line 26, time(), the load of self.last_time_sec and the division
Divide(t) ==
    /\ pc[t] = "L26_div"
    /\ LET diff == Diff(loc[t].rlm, loc[t].m, clock, last_time_sec)
       IN  IF diff = ZeroDivisionError
           THEN \* the frame is gone; the caller holds the exception
                /\ loc' = [loc EXCEPT
                             ![t] = [NoLocals EXCEPT
                                       !.kind = "ZeroDivisionError"]]
                /\ Goto(t, "idle")
           ELSE /\ loc' = [loc EXCEPT ![t].diff = diff]
                /\ Goto(t, "L27")
    /\ UNCHANGED <<gains, fields, clock, nops, ncompute, calls, op, last, prev,
                   overlapped>>

\* line 27
StoreTime(t) ==
    /\ pc[t] = "L27"
    /\ last_time_sec' = clock
    /\ Goto(t, "L28")
    /\ UNCHANGED <<gains, accum, last_measurement, clock, nops, ncompute,
                   calls, op, last, prev, loc, overlapped>>

\* line 28
StoreMeasurement(t) ==
    /\ pc[t] = "L28"
    /\ last_measurement' = Some(loc[t].m)
    /\ Goto(t, "L30")
    /\ UNCHANGED <<gains, accum, last_time_sec, clock, nops, ncompute, calls,
                   op, last, prev, loc, overlapped>>

\* line 30, with its load of self.accum
Return(t) ==
    /\ pc[t] = "L30"
    /\ loc' = [loc EXCEPT
                 ![t] = [NoLocals EXCEPT
                           !.kind = "value",
                           !.val = Output(p, i, d, loc[t].error, accum,
                                          loc[t].diff)]]
    /\ Goto(t, "idle")
    /\ UNCHANGED <<gains, fields, clock, nops, ncompute, calls, op, last, prev,
                   overlapped>>

\* reset: line 17 is its one store
CallReset(t) ==
    /\ ~Busy(t)
    /\ nops < MaxThreadCalls
    /\ accum' = 0
    /\ nops' = nops + 1
    /\ calls' = <<>>
    /\ overlapped' = (overlapped \/ OthersBusy(t))
    /\ UNCHANGED <<gains, last_measurement, last_time_sec, clock, ncompute,
                   op, last, prev, pc, loc>>

NextThreads ==
    \/ Tick
    \/ \E t \in Threads :
          \/ \E measurement \in {1, 2} : CallCompute(t, measurement, 0)
          \/ LoadAccum(t)
          \/ StoreAccum(t)
          \/ TestFirst(t)
          \/ LoadMeasurement(t)
          \/ Divide(t)
          \/ StoreTime(t)
          \/ StoreMeasurement(t)
          \/ Return(t)
          \/ CallReset(t)

SpecThreads == InitThreads /\ [][NextThreads]_vars

\* ------------------------------------------------- what the claims speak of
\* sum of (s_k - m_k) over a sequence of <<m_k, s_k>>
RECURSIVE SumErr(_)
SumErr(cs) ==
    IF cs = <<>> THEN 0 ELSE (Head(cs)[2] - Head(cs)[1]) + SumErr(Tail(cs))

ZeroGains == p = R(0) /\ i = R(0) /\ d = R(0)

\* the latest call was a compute, and nothing but the clock moved since
JustComputed == op = "compute" /\ last.some

LastError == last.s - last.m

\* p*e + i*a + d*q, written out
Blend(e, a, q) == RAdd(RAdd(RMul(p, R(e)), RMul(i, R(a))), RMul(d, q))

\* C1: accum is the sum of (setpoint - measurement) over the compute calls
\* made since the latest reset (since construction when there was none); it
\* is 0 when there was no such call.
AccumIsSumSinceReset == accum = SumErr(calls)

AccumIsSumSinceResetWitness ==
    /\ JustComputed
    /\ nops > ncompute
    /\ ncompute >= 2
    /\ Len(calls) = 1
    /\ accum # 0

\* the worked example: PIDController(p=50, d=-0.75), compute(2, 0) and one
\* second later compute(1, 0)
PendulumExample ==
    ( /\ JustComputed /\ ncompute = 2
      /\ p = R(50) /\ i = R(0) /\ d = <<-3, 4>>
      /\ prev.m = 2 /\ prev.s = 0 /\ last.m = 1 /\ last.s = 0
      /\ last.t26 - prev.tlast = 1 ) =>
       (prev.val = R(-100) /\ last.val = <<-197, 4>>)

\* C2: a compute call that is not the first and whose elapsed time since the
\* previous compute call is not zero returns p*(s-m) + i*A + d*((m-m_prev)/
\* elapsed), m_prev being the measurement of the immediately preceding compute
\* call; with p=50, i=0, d=-0.75, compute(2, 0) and one second later
\* compute(1, 0) return -100 and -49.25.
DerivativeOnPrecedingCall ==
    /\ (JustComputed /\ prev.some /\ last.t26 - prev.tlast # 0) =>
          /\ last.kind = "value"
          /\ last.val = Blend(LastError, accum,
                               Norm(last.m - prev.m, last.t26 - prev.tlast))
    /\ PendulumExample

\* C3: the first compute call of a controller returns p*(s-m) + i*(s-m) and
\* does not divide, whatever the gains and the time since construction.
FirstComputeHasNoDerivative ==
    (last.some /\ ncompute = 1) =>
        /\ last.kind = "value"
        /\ ~last.divided
        /\ last.val = RAdd(RMul(p, R(LastError)), RMul(i, R(LastError)))

FirstComputeHasNoDerivativeWitness ==
    /\ last.some /\ ncompute = 1
    /\ last.tlast = last.lts0
    /\ d # R(0) /\ i # R(0)
    /\ LastError # 0

\* C4: reset sets accum to 0 and changes no other field and no gain.
ResetClearsOnlyAccum ==
    [][(nops' = nops + 1 /\ op' = "reset") =>
          /\ accum' = 0
          /\ last_measurement' = last_measurement
          /\ last_time_sec' = last_time_sec
          /\ p' = p /\ i' = i /\ d' = d]_vars

ResetClearsOnlyAccumWitness ==
    /\ op = "reset"
    /\ last.some /\ last.kind = "value"
    /\ last.accum0 + LastError # 0
    /\ accum = 0
    /\ last_measurement = Some(last.m)
    /\ last_time_sec = last.tlast

\* C5 as claimed: with all gains 0 every compute call returns 0, identical
\* timestamps of consecutive calls included.
ZeroGainsAlwaysReturnZero ==
    (ZeroGains /\ last.some) => (last.kind = "value" /\ last.val = R(0))

\* C5 amended: with all gains 0 every compute call that returns returns 0,
\* and the only calls that do not return are those, not the first, whose
\* clock reading equals the stored last_time_sec.
ZeroGainsReturnZeroUnlessFault ==
    (ZeroGains /\ last.some) =>
        IF last.lm0 # None /\ last.t26 = last.lts0
        THEN last.kind = "ZeroDivisionError"
        ELSE last.kind = "value" /\ last.val = R(0)

ZeroGainsReturnZeroUnlessFaultWitness ==
    /\ ZeroGains /\ JustComputed
    /\ last.kind = "value" /\ last.divided
    /\ last.m # last.lm0[1]
    /\ accum # 0

\* C6: a compute call on a controller that has completed a compute, made when
\* the clock equals the stored last_time_sec, ends in ZeroDivisionError
\* whatever d and the measurements are.
ZeroElapsedFaults ==
    (last.some /\ last.lm0 # None /\ last.t26 = last.lts0) =>
        last.kind = "ZeroDivisionError"

ZeroElapsedFaultsWitness ==
    /\ last.some
    /\ last.kind = "ZeroDivisionError"
    /\ d = R(0)
    /\ last.lm0 = Some(last.m)

\* C7: after every compute call, returned or faulted, accum has grown by
\* (s - m), last_measurement is m and last_time_sec is the call's clock
\* reading.
ComputeUpdatesAllFields ==
    JustComputed =>
        /\ accum = last.accum0 + LastError
        /\ last_measurement = Some(last.m)
        /\ last_time_sec = last.tlast

\* C8: last_measurement is None exactly while no compute call has been made.
NoneIffNoCompute == (last_measurement = None) <=> (ncompute = 0)

NoneIffNoComputeWitness ==
    /\ op = "reset"
    /\ ncompute >= 2
    /\ last.kind = "ZeroDivisionError"
    /\ last_measurement # None

\* C9: the timestamp a compute call stores in last_time_sec is the clock
\* reading its elapsed time was computed from.
StoredTimeIsElapsedReading ==
    (JustComputed /\ last.divided /\ last.kind = "value") =>
        last_time_sec = last.t26

\* no call is in progress
Quiescent == \A t \in Threads : ~Busy(t)

\* C10: calls of two unsynchronized threads can lose an update of accum,
\* while calls made one after the other, by whichever thread, keep accum the
\* sum of (s - m) over the compute calls since the latest reset.
SerializedCallsKeepSum ==
    (Quiescent /\ ~overlapped) => accum = SumErr(calls)

\* two compute calls overlapped, no reset was ever made, and accum is not the
\* sum of their errors
LostUpdate ==
    /\ Quiescent
    /\ nops = ncompute
    /\ ncompute = 2
    /\ accum # SumErr(calls)

====
